---- MODULE Spec2Model ----
(***************************************************************************)
(* Model of the "Triangle Auth Backend": the users table of models.py and  *)
(* the request handlers of main.py, run by concurrent requests against one *)
(* Postgres store.                                                         *)
(*                                                                         *)
(* A string is a sequence of text units.  User names, e-mail addresses and *)
(* subject identifiers are sequences of single characters; an              *)
(* Authorization header is a sequence of units in which " " is white space *)
(* and any other unit is an indivisible run of non-space characters.       *)
(* Python's None is the value None below, which is no string.              *)
(*                                                                         *)
(* Every action holds exactly one access to the store (one SELECT or one   *)
(* COMMIT) together with the local computation that surrounds it, so the   *)
(* interleavings of the actions are the interleavings of the handlers'     *)
(* store accesses under READ COMMITTED.                                    *)
(***************************************************************************)
EXTENDS Integers, Sequences, FiniteSets, TLC

VARIABLES
    users,      \* the rows of table "users", in insertion order
    req,        \* req[r]: the request that worker r is handling, or Idle
    started     \* number of requests accepted so far

vars == <<users, req, started>>

(***************************************************************************)
(* Bounds of the model                                                     *)
(***************************************************************************)
MaxRequests == 3

\* two workers serve the requests
Workers == {1, 2}

(***************************************************************************)
(* Strings                                                                 *)
(***************************************************************************)
\* Python's None where a string may stand, and where an object may stand
None == <<"<None>">>
Nothing == [none |-> TRUE]
Empty == <<>>

\* Python truthiness of an Optional[str]: None and "" are falsy
Truthy(v) == v # None /\ v # Empty

DigitChar == <<"0", "1", "2", "3", "4", "5", "6", "7", "8", "9">>

\* str(n) for n >= 0, as the f-string of google_login formats count
RECURSIVE IntToStr(_)
IntToStr(n) ==
    IF n < 10 THEN <<DigitChar[n + 1]>>
    ELSE IntToStr(n \div 10) \o <<DigitChar[(n % 10) + 1]>>

\* s[:n]
Slice(s, n) == SubSeq(s, 1, IF Len(s) < n THEN Len(s) ELSE n)

\* s.split(sep)[0]: the part of s before the first sep, all of s without one
RECURSIVE SplitFirst(_, _)
SplitFirst(s, sep) ==
    IF s = Empty \/ Head(s) = sep THEN Empty
    ELSE <<Head(s)>> \o SplitFirst(Tail(s), sep)

\* s.split(): the maximal runs of non-space units of s, in order
RECURSIVE SplitWords(_, _)
SplitWords(s, cur) ==
    IF s = Empty THEN (IF cur = Empty THEN <<>> ELSE <<cur>>)
    ELSE IF Head(s) = " "
         THEN (IF cur = Empty THEN <<>> ELSE <<cur>>) \o SplitWords(Tail(s), Empty)
         ELSE SplitWords(Tail(s), cur \o <<Head(s)>>)

split(s) == SplitWords(s, Empty)

(***************************************************************************)
(* The identity provider (firebase_config.py)                              *)
(***************************************************************************)
UidA == <<"u", "A">>
UidB == <<"u", "B">>
\* a subject identifier of more than eight characters
UidK == <<"k", "1", "2", "3", "4", "5", "6", "7", "K">>

MailAX == <<"a", "@", "x">>
MailAY == <<"a", "@", "y">>
MailBX == <<"b", "@", "x">>

NameAl == <<"A", "l">>
PicA == <<"p", "A">>

TokA == <<"tokA">>
TokB == <<"tokB">>
TokK == <<"tokK">>
TokBad == <<"expired">>

ValidTokens == {TokA, TokB, TokK}
Tokens == ValidTokens \cup {TokBad}

\* what auth.verify_id_token decodes from each token it accepts
DecodedToken(id_token) ==
    CASE id_token = TokA ->
            [uid |-> UidA, email |-> MailAX, name |-> NameAl, picture |-> PicA]
      [] id_token = TokB ->
            [uid |-> UidB, email |-> MailAY, name |-> None, picture |-> None]
      [] id_token = TokK ->
            [uid |-> UidK, email |-> None, name |-> None, picture |-> None]

\* a verifier that decodes whatever it is given
verify_token_unchecked(id_token) ==
    IF id_token \in ValidTokens THEN DecodedToken(id_token) ELSE DecodedToken(TokA)

\* verify_token: the decoded token, or Nothing when verification raises
verify_token(id_token) ==
    IF id_token \in ValidTokens THEN DecodedToken(id_token) ELSE Nothing

(***************************************************************************)
(* The users table (models.py) and its queries                             *)
(***************************************************************************)
\* models.User as the handlers construct it; columns they do not pass take
\* their column defaults.  id is the row's position and created_at the
\* logical time of the insert.
User(id, uid, email, username, display_name, photo_url) ==
    [id |-> id, username |-> username, email |-> email,
     hashed_password |-> None, uid |-> uid, is_active |-> TRUE,
     created_at |-> id, display_name |-> display_name, state |-> None,
     language |-> None, photo_url |-> photo_url, bio |-> None]

Ids(tbl) == 1..Len(tbl)

Min(S) == CHOOSE x \in S : \A y \in S : x <= y

\* db.query(User).filter(User.<col> == v).first(): the first matching row, or
\* Nothing.  The ORM renders a comparison with None as IS NULL, which matches
\* the rows whose column is NULL.
QueryFirst(tbl, col, v) ==
    LET hits == {i \in Ids(tbl) : tbl[i][col] = v}
    IN  IF hits = {} THEN Nothing ELSE tbl[Min(hits)]

\* the unique constraints of columns username, email and uid: NULLs never
\* collide
UniqueCols == {"username", "email", "uid"}

\* a table that kept only the constraint on username
ViolatesUsernameOnly(tbl, row) ==
    \E i \in Ids(tbl) : row.username # None /\ tbl[i].username = row.username

Violates(tbl, row) ==
    \E i \in Ids(tbl) : \E c \in UniqueCols :
        row[c] # None /\ tbl[i][c] = row[c]

\* the row a request reads back by primary key (db.refresh)
Refreshed(tbl, id) == tbl[id]

(***************************************************************************)
(* Requests                                                                *)
(***************************************************************************)
Idle == [op |-> "idle", pc |-> "idle"]

HTTPException(code, detail) == [status |-> code, detail |-> detail]

\* an exception no handler catches: the framework answers 500
Unhandled(exc) == [status |-> 500, detail |-> exc]

Done(op, input, response) ==
    [op |-> op, pc |-> "done", input |-> input, response |-> response]

Bearer(tok) == <<"Bearer", " ">> \o tok

\* Authorization headers the clients send: well-formed ones, and every way
\* the handlers tell a header from a well-formed one
BearerHeaders == {Bearer(t) : t \in ValidTokens}

AllHeaders ==
    BearerHeaders
      \cup {Bearer(TokBad), None, Empty, <<" ">>, <<"Bearer">>,
            <<"Basic", " ">> \o TokA,
            <<" ", "Bearer", " ", " ">> \o TokA \o <<" ">>,
            Bearer(TokA) \o <<" ", "x">>}

NameA == <<"a">>
NameA1 == <<"a", "1">>

\* bodies of POST /user/register (schemas.UserBase)
RegisterBodies ==
    [username : {NameA, NameA1}, email : {MailAX, MailBX}, display_name : {None}]

NewBio == <<"n", "e", "w">>
ValS == <<"S">>
ValL == <<"L">>
PicB == <<"p", "B">>

\* bodies of POST /user/profile (schemas.UserProfileUpdate); a field the
\* client leaves out is None.  The last body sends the picture the identity
\* provider gave user A, the value a row created by google-login already has.
ProfileBodies ==
    {[display_name |-> Empty, state |-> None, language |-> None,
      photo_url |-> None, bio |-> NewBio],
     [display_name |-> None, state |-> ValS, language |-> Empty,
      photo_url |-> PicB, bio |-> None],
     [display_name |-> None, state |-> None, language |-> None,
      photo_url |-> PicA, bio |-> None]}

\* bodies of POST /user/lookup (a free-form dict)
LookupBodies == {[username |-> NameA], [name |-> NameA]}

\* data.get(key)
Get(data, key) == IF key \in DOMAIN data THEN data[key] ELSE None

(***************************************************************************)
(* get_current_user: the dependency of the protected routes                *)
(***************************************************************************)
Raise(exc) == [ok |-> FALSE, error |-> exc]
Return(user) == [ok |-> TRUE, user |-> user]

\* a guard that reads the token and never looks at the scheme
get_current_user_any_scheme(authorization, tbl) ==
    IF authorization = None
    THEN Raise(HTTPException(401, "Authorization header missing"))
    ELSE LET parts == split(authorization) IN
         IF Len(parts) # 2
         THEN Raise(HTTPException(401, "Invalid authorization scheme"))
         ELSE LET decoded_token == verify_token(parts[2]) IN
              IF decoded_token = Nothing
              THEN Raise(HTTPException(401, "Invalid or expired token"))
              ELSE LET user == QueryFirst(tbl, "uid", decoded_token.uid) IN
                   IF user = Nothing
                   THEN Raise(HTTPException(404, "User not found in database"))
                   ELSE Return(user)

get_current_user(authorization, tbl) ==
    IF authorization = None
    THEN Raise(HTTPException(401, "Authorization header missing"))
    ELSE LET parts == split(authorization) IN
         IF Len(parts) # 2 \/ parts[1] # <<"Bearer">>
         THEN Raise(HTTPException(401, "Invalid authorization scheme"))
         ELSE LET decoded_token == verify_token(parts[2]) IN
              IF decoded_token = Nothing
              THEN Raise(HTTPException(401, "Invalid or expired token"))
              ELSE LET user == QueryFirst(tbl, "uid", decoded_token.uid) IN
                   IF user = Nothing
                   THEN Raise(HTTPException(404, "User not found in database"))
                   ELSE Return(user)

\* an idle worker takes the next request
Accept(r) == req[r] = Idle /\ started < MaxRequests /\ started' = started + 1

(***************************************************************************)
(* GET /user/profile                                                       *)
(***************************************************************************)
ProfileView(u) ==
    [uid |-> u.uid, username |-> u.username, email |-> u.email,
     created_at |-> u.created_at, display_name |-> u.display_name,
     photo_url |-> u.photo_url, state |-> u.state, language |-> u.language,
     bio |-> u.bio]

get_user_profile(r, headers) ==
    /\ Accept(r)
    /\ \E authorization \in headers :
          LET got == get_current_user(authorization, users) IN
          req' = [req EXCEPT ![r] =
                    Done("get_user_profile", [authorization |-> authorization],
                         IF got.ok
                         THEN [status |-> 200, body |-> ProfileView(got.user)]
                         ELSE got.error)]
    /\ UNCHANGED users

(***************************************************************************)
(* POST /user/register                                                     *)
(***************************************************************************)
\* a handler that leaves the username to the store
UsernameNeverTaken(tbl, username) == FALSE

\* line 73: the username check
UsernameTaken(tbl, username) == QueryFirst(tbl, "username", username) # Nothing

\* lines 65-74: the token check and the username check
register_user_check(r, headers, bodies) ==
    /\ Accept(r)
    /\ \E authorization \in headers, user_data \in bodies :
          LET input == [authorization |-> authorization, user_data |-> user_data]
              end(response) == Done("register_user", input, response)
          IN
          req' = [req EXCEPT ![r] =
            IF ~Truthy(authorization)
            THEN end(HTTPException(401, "No token"))
            ELSE IF Len(split(authorization)) < 2
            THEN end(Unhandled("IndexError"))
            ELSE LET decoded_token == verify_token(split(authorization)[2]) IN
                 IF decoded_token = Nothing
                 THEN end(HTTPException(401, "Invalid token"))
                 ELSE IF UsernameTaken(users, user_data.username)
                 THEN end(HTTPException(400, "Username already taken"))
                 ELSE [op |-> "register_user", pc |-> "commit", input |-> input,
                       uid |-> decoded_token.uid]]
    /\ UNCHANGED users

\* lines 76-84: db.add and db.commit
register_user_commit(r) ==
    /\ req[r].op = "register_user" /\ req[r].pc = "commit"
    /\ LET user_data == req[r].input.user_data
           new_user == User(Len(users) + 1, req[r].uid, user_data.email,
                            user_data.username, user_data.display_name, None)
       IN  IF Violates(users, new_user)
           THEN /\ req' = [req EXCEPT ![r] =
                    Done("register_user", req[r].input, Unhandled("IntegrityError"))]
                /\ UNCHANGED users
           ELSE /\ users' = Append(users, new_user)
                /\ req' = [req EXCEPT ![r] =
                    [op |-> "register_user", pc |-> "refresh",
                     input |-> req[r].input, new_user |-> new_user.id]]
    /\ UNCHANGED started

\* lines 85-86: db.refresh and the response
register_user_refresh(r) ==
    /\ req[r].op = "register_user" /\ req[r].pc = "refresh"
    /\ req' = [req EXCEPT ![r] =
          Done("register_user", req[r].input,
               [status |-> 200,
                body |-> [status |-> "User registered successfully",
                          user |-> Refreshed(users, req[r].new_user)]])]
    /\ UNCHANGED <<users, started>>

(***************************************************************************)
(* POST /user/google-login                                                 *)
(***************************************************************************)
UidSliceLen == 8
UserPrefix == <<"u", "s", "e", "r", "_">>

\* line 103
base_username(uid, email) ==
    IF Truthy(email) THEN SplitFirst(email, "@")
    ELSE UserPrefix \o Slice(uid, UidSliceLen)

\* a loop whose first suffix is 2
CandidateOffByOne(base, count) == base \o IntToStr(count + 1)

\* line 109
Candidate(base, count) == base \o IntToStr(count)

\* a response that reports every login as a first login
LoginResponseAlwaysNew(created, u) ==
    [status |-> 200,
     body |-> [new_user |-> TRUE,
               profile |-> [uid |-> u.uid, username |-> u.username,
                            email |-> u.email, created_at |-> u.created_at,
                            display_name |-> u.display_name,
                            photo_url |-> u.photo_url, state |-> u.state,
                            language |-> u.language]]]

\* the "profile" object of the response, lines 126-135 and 141-150
LoginProfile(u) ==
    [uid |-> u.uid, username |-> u.username, email |-> u.email,
     created_at |-> u.created_at, display_name |-> u.display_name,
     photo_url |-> u.photo_url, state |-> u.state, language |-> u.language]

LoginResponse(created, u) ==
    [status |-> 200, body |-> [new_user |-> created, profile |-> LoginProfile(u)]]

\* lines 90-106 and 138-151: the token check and the lookup by uid
google_login_lookup(r, tokens) ==
    /\ Accept(r)
    /\ \E id_token \in tokens :
          LET input == [id_token |-> id_token]
              decoded_token == verify_token(id_token)
          IN
          req' = [req EXCEPT ![r] =
            IF decoded_token = Nothing
            THEN Done("google_login", input,
                      HTTPException(401, "Invalid Google Token"))
            ELSE LET user == QueryFirst(users, "uid", decoded_token.uid) IN
                 IF user # Nothing
                 THEN Done("google_login", input, LoginResponse(FALSE, user))
                 ELSE LET base == base_username(decoded_token.uid,
                                                decoded_token.email)
                      IN  [op |-> "google_login", pc |-> "resolve",
                           input |-> input, base_username |-> base,
                           count |-> 0, username |-> base]]
    /\ UNCHANGED users

\* lines 107-109: one test of the while loop, and its body when it holds
google_login_resolve(r) ==
    /\ req[r].op = "google_login" /\ req[r].pc = "resolve"
    /\ req' = [req EXCEPT ![r] =
          IF QueryFirst(users, "username", req[r].username) # Nothing
          THEN [@ EXCEPT !.count = @ + 1,
                         !.username = Candidate(req[r].base_username,
                                                req[r].count + 1)]
          ELSE [@ EXCEPT !.pc = "commit"]]
    /\ UNCHANGED <<users, started>>

\* lines 111-120: db.add and db.commit
google_login_commit(r) ==
    /\ req[r].op = "google_login" /\ req[r].pc = "commit"
    /\ LET decoded_token == verify_token(req[r].input.id_token)
           new_user == User(Len(users) + 1, decoded_token.uid,
                            decoded_token.email, req[r].username,
                            decoded_token.name, decoded_token.picture)
       IN  IF Violates(users, new_user)
           THEN /\ req' = [req EXCEPT ![r] =
                    Done("google_login", req[r].input, Unhandled("IntegrityError"))]
                /\ UNCHANGED users
           ELSE /\ users' = Append(users, new_user)
                /\ req' = [req EXCEPT ![r] =
                    [op |-> "google_login", pc |-> "refresh",
                     input |-> req[r].input, count |-> req[r].count,
                     new_user |-> new_user.id]]
    /\ UNCHANGED started

\* lines 121-136: db.refresh and the response
google_login_refresh(r) ==
    /\ req[r].op = "google_login" /\ req[r].pc = "refresh"
    /\ req' = [req EXCEPT ![r] =
          Done("google_login", req[r].input,
               LoginResponse(TRUE, Refreshed(users, req[r].new_user)))]
    /\ UNCHANGED <<users, started>>

(***************************************************************************)
(* POST /user/profile                                                      *)
(***************************************************************************)
ProfileFields == {"display_name", "state", "language", "photo_url", "bio"}

\* lines 173-177: a field is assigned when the supplied value is truthy
Assigned(profile_data, f) == Truthy(profile_data[f])

\* the session's change tracking: an assignment marks a column for the UPDATE
\* when the assigned value differs from the value the session loaded
Dirty(loaded, profile_data, f) ==
    Assigned(profile_data, f) /\ profile_data[f] # loaded[f]

\* an update that also stamps the row's time
ApplyProfileAndStamp(row, loaded, profile_data) ==
    [c \in DOMAIN row |->
        IF c \in ProfileFields /\ Dirty(loaded, profile_data, c)
        THEN profile_data[c]
        ELSE IF c = "created_at" THEN row[c] + 1
        ELSE row[c]]

\* the UPDATE of db.commit: the stored row with the dirty columns of the
\* session's object written over it
ApplyProfile(row, loaded, profile_data) ==
    [c \in DOMAIN row |->
        IF c \in ProfileFields /\ Dirty(loaded, profile_data, c)
        THEN profile_data[c] ELSE row[c]]

\* the get_current_user dependency of the route; current_user is the row as
\* the session loaded it
update_user_profile_auth(r, headers, bodies) ==
    /\ Accept(r)
    /\ \E authorization \in headers, profile_data \in bodies :
          LET input == [authorization |-> authorization,
                        profile_data |-> profile_data]
              got == get_current_user(authorization, users)
          IN
          req' = [req EXCEPT ![r] =
            IF got.ok
            THEN [op |-> "update_user_profile", pc |-> "commit",
                  input |-> input, current_user |-> got.user]
            ELSE Done("update_user_profile", input, got.error)]
    /\ UNCHANGED users

\* lines 173-179: the assignments and db.commit, an UPDATE of the columns of
\* the row current_user whose assigned value differs from the loaded one
update_user_profile_commit(r) ==
    /\ req[r].op = "update_user_profile" /\ req[r].pc = "commit"
    /\ users' = [users EXCEPT ![req[r].current_user.id] =
                    ApplyProfile(@, req[r].current_user,
                                 req[r].input.profile_data)]
    /\ req' = [req EXCEPT ![r] = [@ EXCEPT !.pc = "refresh"]]
    /\ UNCHANGED started

\* lines 180-188: db.refresh and the response
update_user_profile_refresh(r) ==
    /\ req[r].op = "update_user_profile" /\ req[r].pc = "refresh"
    /\ LET u == Refreshed(users, req[r].current_user.id) IN
       req' = [req EXCEPT ![r] =
          Done("update_user_profile", req[r].input,
               [status |-> 200,
                body |-> [status |-> "Profile updated successfully",
                          profile |-> [uid |-> u.uid, username |-> u.username,
                                       email |-> u.email, state |-> u.state,
                                       language |-> u.language,
                                       photo_url |-> u.photo_url]]])]
    /\ UNCHANGED <<users, started>>

(***************************************************************************)
(* POST /user/lookup                                                       *)
(***************************************************************************)
lookup_user(r, bodies) ==
    /\ Accept(r)
    /\ \E data \in bodies :
          LET user == QueryFirst(users, "username", Get(data, "username")) IN
          req' = [req EXCEPT ![r] =
            Done("lookup_user", data,
                 IF user # Nothing
                 THEN [status |-> 200, body |-> [email |-> user.email]]
                 ELSE HTTPException(404, "User ID not found"))]
    /\ UNCHANGED users

(***************************************************************************)
(* The system                                                              *)
(***************************************************************************)
\* the response leaves and the worker is free for the next request
Respond(r) ==
    /\ req[r].pc = "done"
    /\ req' = [req EXCEPT ![r] = Idle]
    /\ UNCHANGED <<users, started>>

Init ==
    /\ users = <<>>
    /\ req = [r \in Workers |-> Idle]
    /\ started = 0

\* Spec: every route, concurrently, with well-formed requests
Next ==
    \E r \in Workers :
        \/ get_user_profile(r, AllHeaders)
        \/ register_user_check(r, AllHeaders, RegisterBodies)
        \/ register_user_commit(r)
        \/ register_user_refresh(r)
        \/ google_login_lookup(r, Tokens)
        \/ google_login_resolve(r)
        \/ google_login_commit(r)
        \/ google_login_refresh(r)
        \/ update_user_profile_auth(r, {Bearer(TokA), Bearer(TokB), Bearer(TokBad)}, ProfileBodies)
        \/ update_user_profile_commit(r)
        \/ update_user_profile_refresh(r)
        \/ lookup_user(r, LookupBodies)
        \/ Respond(r)

Spec == Init /\ [][Next]_vars

\* SpecSeq: register and google-login calls made one after the other; a call
\* starts only when no other call is under way
Quiet == \A q \in Workers : req[q].pc \in {"idle", "done"}

NextSeq ==
    \E r \in Workers :
        \/ Quiet /\ register_user_check(r, BearerHeaders, RegisterBodies)
        \/ register_user_commit(r)
        \/ register_user_refresh(r)
        \/ Quiet /\ google_login_lookup(r, ValidTokens)
        \/ google_login_resolve(r)
        \/ google_login_commit(r)
        \/ google_login_refresh(r)
        \/ Respond(r)

SpecSeq == Init /\ [][NextSeq]_vars

(***************************************************************************)
(* Observations shared by the properties                                   *)
(***************************************************************************)
IsDone(r, op) == req[r].op = op /\ req[r].pc = "done"

\* worker r takes a request of route op in this step and runs its first part
Accepts(r, op) == req[r] = Idle /\ req'[r] # Idle /\ req'[r].op = op

Rejected(r) == req[r].pc = "done" /\ req[r].response = Unhandled("IntegrityError")

(***************************************************************************)
(* C1: in every reachable state no two distinct rows share a username, a   *)
(* non-null email or a non-null uid, whatever the interleaving of          *)
(* register, google-login and update-profile requests.                     *)
(***************************************************************************)
C1_Unique ==
    \A i, j \in Ids(users) :
        i # j =>
            \A c \in UniqueCols :
                users[i][c] = None \/ users[i][c] # users[j][c]

\* two rows are stored and an insert that would have duplicated a value was
\* turned down
C1_Witness ==
    /\ Len(users) >= 2
    /\ \E r \in Workers : Rejected(r)

(***************************************************************************)
(* C2: two concurrent google-login requests with the same verified claims  *)
(* for an unseen subject leave exactly one row for that subject, and both  *)
(* end by returning a profile with the same uid, username and email.       *)
(* Stated for two finished requests of which one created the row.          *)
(***************************************************************************)
Identity(profile) ==
    [uid |-> profile.uid, username |-> profile.username, email |-> profile.email]

Created(r) ==
    /\ IsDone(r, "google_login")
    /\ req[r].response.status = 200
    /\ req[r].response.body.new_user

\* C2: of two finished google-login requests with the same token, when one
\* created the row, the table has one row for the uid and the other request
\* returned the same uid, username and email
C2_BothReturn ==
    \A r, q \in Workers :
        (/\ r # q
         /\ Created(r)
         /\ IsDone(q, "google_login")
         /\ req[q].input = req[r].input)
        => /\ Cardinality({i \in Ids(users) :
                users[i].uid = req[r].response.body.profile.uid}) = 1
           /\ req[q].response.status = 200
           /\ Identity(req[q].response.body.profile)
                = Identity(req[r].response.body.profile)

(***************************************************************************)
(* C3: when the store rejects the insert of register or google-login for a *)
(* uniqueness violation, the request ends by returning the existing row or *)
(* with a Conflict error, never in an unhandled failure.                   *)
(***************************************************************************)
C3_NoUnhandledRejection ==
    \A r \in Workers :
        req[r].pc = "done" /\ req[r].op \in {"register_user", "google_login"}
        => req[r].response # Unhandled("IntegrityError")

(***************************************************************************)
(* C5: the username google-login gives a new user is the base name (the    *)
(* local part of the email, or "user_" and the first eight characters of   *)
(* the uid without an email) when no row has it, else base+k for the least *)
(* k >= 1 such that no row has base+k; the search tries k = 1, 2, ... in   *)
(* order and makes at most N+1 lookups when the table holds N rows.        *)
(***************************************************************************)
C5_Base(id_token) ==
    CASE id_token = TokA -> <<"a">>
      [] id_token = TokB -> <<"a">>
      [] id_token = TokK ->
            <<"u", "s", "e", "r", "_", "k", "1", "2", "3", "4", "5", "6", "7">>

C5_Names(tbl) == {tbl[i].username : i \in Ids(tbl)}

C5_Suffixed(base, k) == IF k = 0 THEN base ELSE base \o IntToStr(k)

C5_Least(tbl, base) ==
    C5_Suffixed(base,
        Min({k \in 0..Len(tbl) : C5_Suffixed(base, k) \notin C5_Names(tbl)}))

\* while the search runs: count lookups found a row, and they were for base,
\* base1, ..., in order
C5_Searching(r) ==
    req[r].op = "google_login" /\ req[r].pc \in {"resolve", "commit"}
    => /\ req[r].base_username = C5_Base(req[r].input.id_token)
       /\ req[r].username = C5_Suffixed(req[r].base_username, req[r].count)
       /\ req[r].count <= Len(users)
       /\ \A k \in 0..(req[r].count - 1) :
             C5_Suffixed(req[r].base_username, k) \in C5_Names(users)

\* C5: the search visits base, base1, base2, ... with at most one lookup per
\* row and one more, and the row inserted has the least free name
C5_Username ==
    [][\A r \in Workers :
        /\ C5_Searching(r)'
        /\ (req[r].op = "google_login" /\ req[r].pc = "commit"
              /\ req'[r].pc = "refresh")
           => /\ users'[Len(users')].username
                    = C5_Least(users, C5_Base(req[r].input.id_token))
              /\ req[r].count + 1 <= Len(users) + 1]_vars

\* google-login created a user after two names were found taken
C5_Witness ==
    \E i \in Ids(users) :
        users[i].username = <<"a", "2">> /\ users[i].uid \in {UidA, UidB}

(***************************************************************************)
(* C6: a register call whose username is the username of an existing user  *)
(* fails with Conflict (400), whatever its subject, and leaves the table   *)
(* unchanged; a register call whose username is unused creates exactly one *)
(* row with that username, the verified uid and no hashed_password.        *)
(* The claim is about calls that carry a verified token.                   *)
(***************************************************************************)
\* the token a register call presents: the second word of its header
PresentsToken(authorization) ==
    Truthy(authorization) /\ Len(split(authorization)) >= 2

Presented(authorization) == split(authorization)[2]

Verified(authorization) ==
    PresentsToken(authorization) /\ Presented(authorization) \in ValidTokens

Holds(tbl, col, v) == \E i \in Ids(tbl) : tbl[i][col] = v

\* the step in which register's username check finds the name taken
C6_TakenIsConflict(r) ==
    (/\ Accepts(r, "register_user")
     /\ Verified(req'[r].input.authorization)
     /\ Holds(users, "username", req'[r].input.user_data.username))
    => /\ req'[r].pc = "done"
       /\ req'[r].response.status = 400
       /\ users' = users

C6_Creates(r) ==
    LET user_data == req[r].input.user_data IN
    /\ Len(users') = Len(users) + 1
    /\ SubSeq(users', 1, Len(users)) = users
    /\ users'[Len(users')].username = user_data.username
    /\ users'[Len(users')].uid
          = DecodedToken(Presented(req[r].input.authorization)).uid
    /\ users'[Len(users')].hashed_password = None

Committing(r, op) ==
    req[r].op = op /\ req[r].pc = "commit" /\ req'[r] # req[r]

\* C6 as stated: a taken username is refused with 400 and no write, and the
\* insert of a call whose username is unused creates the row
C6_AsClaimed ==
    [][\A r \in Workers :
        /\ C6_TakenIsConflict(r)
        /\ (/\ Committing(r, "register_user")
            /\ ~Holds(users, "username", req[r].input.user_data.username))
           => C6_Creates(r)]_vars

\* C6 amended: a taken username is refused with 400 and no write, and the
\* insert creates the row when no row holds its username, its email or its
\* uid, and no row otherwise
C6_Register ==
    [][\A r \in Workers :
        /\ C6_TakenIsConflict(r)
        /\ Committing(r, "register_user")
           => LET user_data == req[r].input.user_data
                  uid == DecodedToken(Presented(req[r].input.authorization)).uid
              IN  IF \/ Holds(users, "username", user_data.username)
                     \/ Holds(users, "email", user_data.email)
                     \/ Holds(users, "uid", uid)
                  THEN users' = users
                  ELSE C6_Creates(r)]_vars

\* a register call was refused for a username that a user with another uid
\* holds, and another register call created its row
C6_Witness ==
    \E r \in Workers, i \in Ids(users) :
        /\ IsDone(r, "register_user")
        /\ req[r].response.status = 400
        /\ users[i].username = req[r].input.user_data.username
        /\ users[i].uid # DecodedToken(Presented(req[r].input.authorization)).uid
        /\ users[i].hashed_password = None
        /\ users[i].display_name = None
        /\ users[i].email \in {MailAX, MailBX}

(***************************************************************************)
(* C7: get_current_user answers 401 when the header is missing, is not     *)
(* "Bearer <token>", or carries a token that fails verification; 404 when  *)
(* the token verifies and no row has its uid; and otherwise yields exactly *)
(* the row whose uid is the verified one.  It never changes the table.     *)
(***************************************************************************)
WellFormed(authorization) ==
    /\ authorization # None
    /\ Len(split(authorization)) = 2
    /\ split(authorization)[1] = <<"Bearer">>

C7_Status(authorization, tbl) ==
    IF ~WellFormed(authorization) THEN 401
    ELSE IF Presented(authorization) \notin ValidTokens THEN 401
    ELSE IF ~Holds(tbl, "uid", DecodedToken(Presented(authorization)).uid) THEN 404
    ELSE 200

\* C7: the guard's answer is 401, 404 or the row of the verified uid, as the
\* header, the token and the table decide, in both routes that use it, and
\* the table is unchanged
C7_Guard ==
    [][\A r \in Workers :
        /\ Accepts(r, "get_user_profile")
           => LET authorization == req'[r].input.authorization
                  status == C7_Status(authorization, users)
              IN  /\ users' = users
                  /\ req'[r].response.status = status
                  /\ status = 200
                     => \E i \in Ids(users) :
                          /\ users[i].uid
                               = DecodedToken(Presented(authorization)).uid
                          /\ req'[r].response.body = ProfileView(users[i])
        /\ Accepts(r, "update_user_profile")
           => LET authorization == req'[r].input.authorization
                  status == C7_Status(authorization, users)
              IN  /\ users' = users
                  /\ IF status = 200
                     THEN /\ req'[r].pc = "commit"
                          /\ req'[r].current_user \in {users[i] : i \in Ids(users)}
                          /\ req'[r].current_user.uid
                               = DecodedToken(Presented(authorization)).uid
                     ELSE /\ req'[r].pc = "done"
                          /\ req'[r].response.status = status]_vars

\* the guard let a request through to a stored user, and turned one down
\* whose token had no row
C7_Witness ==
    \E r, q \in Workers :
        /\ IsDone(r, "get_user_profile") /\ req[r].response.status = 200
        /\ IsDone(q, "get_user_profile") /\ req[q].response.status = 404

(***************************************************************************)
(* C8: register and google-login insert a row only when verify_token       *)
(* returned claims for the token of that request, and the row's uid is the *)
(* uid of those claims; when verification fails the request ends with 401  *)
(* and the table is unchanged.                                             *)
(***************************************************************************)
C8_Token(request) ==
    IF request.op = "register_user"
    THEN Presented(request.input.authorization)
    ELSE request.input.id_token

\* C8: a row is inserted only by a register or google-login request whose
\* token is verified, with the uid of its claims; a token that fails
\* verification ends the request 401 and writes nothing
C8_Verified ==
    [][/\ Len(users') > Len(users)
          => \E r \in Workers :
                /\ \/ Committing(r, "register_user")
                   \/ Committing(r, "google_login")
                /\ C8_Token(req[r]) \in ValidTokens
                /\ users' = Append(users, users'[Len(users')])
                /\ users'[Len(users')].uid = DecodedToken(C8_Token(req[r])).uid
       /\ \A r \in Workers :
            /\ (/\ Accepts(r, "register_user")
                /\ PresentsToken(req'[r].input.authorization)
                /\ C8_Token(req'[r]) \notin ValidTokens)
               => /\ req'[r].pc = "done"
                  /\ req'[r].response.status = 401
                  /\ users' = users
            /\ (/\ Accepts(r, "google_login")
                /\ C8_Token(req'[r]) \notin ValidTokens)
               => /\ req'[r].pc = "done"
                  /\ req'[r].response.status = 401
                  /\ users' = users]_vars

\* both routes turned a request down for its token while users were stored
C8_Witness ==
    \E r, q \in Workers :
        /\ IsDone(r, "register_user")
        /\ req[r].input.authorization = Bearer(TokBad)
        /\ req[r].response.status = 401
        /\ IsDone(q, "google_login")
        /\ req[q].input.id_token = TokBad
        /\ req[q].response.status = 401
        /\ Len(users) >= 1

(***************************************************************************)
(* C9: update-profile sets each of display_name, state, language,          *)
(* photo_url and bio to the supplied value exactly when that value is      *)
(* present and not the empty string, and leaves it otherwise; it changes   *)
(* no username, email, uid or created_at, and no other user's row.         *)
(***************************************************************************)
C9_Supplied(v) == v # None /\ v # Empty

\* C9: the commit of update-profile leaves every supplied non-empty profile
\* field of the caller's row at the supplied value and every other field as
\* it was, and no other step of the route writes.  The commit skips a
\* supplied value equal to the one the request loaded, so the field keeps
\* what another request stored in between.
C9_Update ==
    [][\A r \in Workers :
        /\ Committing(r, "update_user_profile")
           => LET me == req[r].current_user.id
                  profile_data == req[r].input.profile_data
              IN  /\ Len(users') = Len(users)
                  /\ \A f \in ProfileFields :
                        users'[me][f] = IF C9_Supplied(profile_data[f])
                                        THEN profile_data[f]
                                        ELSE users[me][f]
                  /\ \A c \in {"username", "email", "uid", "created_at"} :
                        users'[me][c] = users[me][c]
                  /\ \A j \in Ids(users) : j # me => users'[j] = users[j]
        /\ (/\ \/ req[r].op = "update_user_profile"
               \/ req'[r].op = "update_user_profile"
            /\ req'[r] # req[r]
            /\ ~Committing(r, "update_user_profile"))
           => users' = users]_vars

(***************************************************************************)
(* C10: a row, once created, is never deleted and its uid, username, email *)
(* and created_at never change; only update-profile modifies an existing   *)
(* row, and google-login for an existing uid, get-profile and lookup are   *)
(* pure reads.                                                             *)
(***************************************************************************)
\* C10: rows persist with their uid, username, email and created_at; a row
\* changes only in the commit of update-profile for it; the reads write
\* nothing
C10_Stable ==
    [][/\ Len(users') >= Len(users)
       /\ \A i \in Ids(users) :
            /\ \A c \in {"uid", "username", "email", "created_at"} :
                  users'[i][c] = users[i][c]
            /\ users'[i] # users[i]
               => \E r \in Workers :
                     /\ Committing(r, "update_user_profile")
                     /\ req[r].current_user.id = i
       /\ \A r \in Workers :
            /\ (Accepts(r, "lookup_user") \/ Accepts(r, "get_user_profile"))
               => users' = users
            /\ (/\ Accepts(r, "google_login")
                /\ req'[r].input.id_token \in ValidTokens
                /\ Holds(users, "uid", DecodedToken(req'[r].input.id_token).uid))
               => /\ users' = users
                  /\ req'[r].pc = "done"
                  /\ req'[r].response.status = 200
                  /\ ~req'[r].response.body.new_user]_vars

\* a user was created and then updated, and a later google-login found it
C10_Witness ==
    /\ \E i \in Ids(users) : users[i].bio = NewBio
    /\ \E r \in Workers :
          /\ IsDone(r, "google_login")
          /\ req[r].response.status = 200
          /\ ~req[r].response.body.new_user

(***************************************************************************)
(* C4: for claims that carry an email and whose uid has no row, two        *)
(* google-login calls made one after the other return new_user = true and  *)
(* then new_user = false with the same uid, username and email.            *)
(* Of two finished calls with the same token the earlier is the one that   *)
(* found no row, rows being never deleted.                                 *)
(***************************************************************************)
Found(r) ==
    /\ IsDone(r, "google_login")
    /\ req[r].response.status = 200
    /\ ~req[r].response.body.new_user

C4_Pair(r, q) ==
    /\ r # q
    /\ IsDone(r, "google_login")
    /\ IsDone(q, "google_login")
    /\ req[q].input = req[r].input
    /\ req[r].input.id_token \in ValidTokens
    /\ Truthy(DecodedToken(req[r].input.id_token).email)
    \* the uid had no row when the earlier call began
    /\ ~(Found(r) /\ Found(q))

C4_CreatedThenFound(r, q) ==
    \/ /\ Created(r) /\ Found(q)
       /\ Identity(req[q].response.body.profile)
            = Identity(req[r].response.body.profile)
    \/ /\ Created(q) /\ Found(r)
       /\ Identity(req[r].response.body.profile)
            = Identity(req[q].response.body.profile)

\* C4 as stated, from every store: of two such calls one created the user
\* and the other found it, with the same uid, username and email
C4_AsClaimed ==
    \A r, q \in Workers : C4_Pair(r, q) => C4_CreatedThenFound(r, q)

\* the email of the claims belongs to a user with another uid
C4_EmailOfOther(id_token) ==
    \E i \in Ids(users) :
        /\ users[i].email = DecodedToken(id_token).email
        /\ users[i].uid # DecodedToken(id_token).uid

\* C4 amended: the same, from every store in which no other user holds the
\* email of the claims
C4_TwoLogins ==
    \A r, q \in Workers :
        C4_Pair(r, q) /\ ~C4_EmailOfOther(req[r].input.id_token)
        => C4_CreatedThenFound(r, q)

\* the first login created the user next to an existing one, with a suffixed
\* username, and the second found it
C4_Witness ==
    \E r, q \in Workers :
        /\ C4_Pair(r, q)
        /\ Created(r) /\ Found(q)
        /\ Len(users) >= 2
        /\ req[r].response.body.profile.username = <<"a", "1">>

====
